---- MODULE Spec2Model ----
(***************************************************************************)
(* State-machine model of the VIP ticket backend (wujigist/tour).          *)
(* The persisted tables (fans, tours, fan_selections, consents), the       *)
(* ticket directory and the answer of the last request are the state; one  *)
(* action per HTTP handler, each with all the calls it makes.              *)
(***************************************************************************)
EXTENDS Integers, Sequences, FiniteSets, TLC

VARIABLES
    fans,        \* table fans:           id -> row
    tours,       \* table tours:          id -> row
    selections,  \* table fan_selections: id -> row
    consents,    \* table consents:       id -> row
    files,       \* PDF paths present in the ticket directory
    nextId,      \* next primary key of each table
    resp,        \* the last request and its answer
    sessions     \* the requests in flight, each with its position and what it read

vars == <<fans, tours, selections, consents, files, nextId, resp, sessions>>

----------------------------------------------------------------------------
(* Bounds of the model *)

MaxFans == 2          \* fans rows ever inserted
MaxTours == 2         \* tours rows ever inserted
MaxSelections == 2    \* fan_selections rows ever inserted
MaxConsents == 1      \* consents rows ever inserted
MaxClaimed == 2       \* height the tickets_claimed counters are followed to
MaxBulk == 2          \* length of the bulk requests explored
MaxConsentRows == 3   \* consents rows ever inserted when consents are deleted
MaxTourFans == 1      \* fans rows ever inserted when tours are administered
MaxAdminTours == 1    \* tours rows ever inserted when tours are administered
SeedActive == 6       \* active tours on offer when the selection ceiling is met
MaxRegistered == 3    \* fans rows ever inserted when registrations are explored
MaxLimitSelections == 6  \* fan_selections rows ever inserted on the way to the ceiling
MaxNameLen == 4       \* length of the names handed to sanitize_filename
MaxInFlight == 2      \* requests followed line by line, side by side

(* Program constants *)

MAX_TOURS_PER_FAN == 5
MaxBulkItems == 5

(* Sample values of the inputs *)

Emails == {"a@b.com", "c@d.org", "e@f.net"}
Times == {"20260105190000"}             \* clock readings, to the second
Suffixes == {"A1B2", "Z9Y8"}            \* random suffixes of a ticket id
CodeSpace == {"VIP-AAAAAAAA", "VIP-B7B7B7B7", "VIP-0C0C0C0C"}
Limits == {1, 2}                        \* ticket_limit values (ge=1)

\* A nullable column that holds nothing.
None == << >>
\* A DateTime column that holds a reading of the clock.
At(now) == <<now>>

Ids(table) == DOMAIN table
\* The ids a request may name: every row's id and one id of no row.
Named(table, next) == Ids(table) \cup {next}

Insert(table, id, row) == table @@ (id :> row)
Delete(table, id) == [i \in Ids(table) \ {id} |-> table[i]]

----------------------------------------------------------------------------
(* models/tour.py *)

\* (mutation) a tour is available whenever it is active
is_available_ActiveOnly(tour) == tour.is_active

is_available(tour) == tour.is_active /\ tour.tickets_claimed < tour.ticket_limit

(* models/fan_selection.py *)

\* (mutation) never a ticket
has_ticket_Never(sel) == FALSE

has_ticket(sel) == sel.ticket_id # None /\ sel.ticket_pdf_path # None

\* (mutation) confirming a confirmed selection cancels it
confirm_selection_Cancels(sel, now) ==
    IF sel.status = "confirmed" THEN [sel EXCEPT !.status = "cancelled"]
    ELSE [sel EXCEPT !.status = "confirmed", !.confirmed_at = <<now>>]

confirm_selection(sel, now) ==
    [sel EXCEPT !.status = "confirmed", !.confirmed_at = At(now)]

\* FanSelection(fan_id=..., tour_id=...) once inserted: the column defaults.
NewSelection(fan_id, tour_id) ==
    [fan_id |-> fan_id, tour_id |-> tour_id, status |-> "pending",
     ticket_id |-> None, ticket_qr_code |-> None, ticket_pdf_path |-> None,
     ticket_generated_at |-> None, confirmed_at |-> None]

(* models/fan.py *)

\* (mutation) the fan's selections are not found
SelectionsOf_None(sels, fan_id) == {}

SelectionsOf(sels, fan_id) == {s \in Ids(sels) : sels[s].fan_id = fan_id}

selections_count(sels, fan_id) == Cardinality(SelectionsOf(sels, fan_id))

\* (mutation) the query for the fan's consent finds no row
ConsentsOf_None(cons, fan_id) == {}

ConsentsOf(cons, fan_id) == {c \in Ids(cons) : cons[c].fan_id = fan_id}

\* db.query(Consent).filter(Consent.fan_id == fan_id).first(): a row, or None.
ConsentRow(cons, fan_id) ==
    IF ConsentsOf(cons, fan_id) = {} THEN None
    ELSE cons[CHOOSE c \in ConsentsOf(cons, fan_id) :
                 \A d \in ConsentsOf(cons, fan_id) : c <= d]

\* (mutation) a consent row is taken for a completed consent
has_completed_consent_AnyRow(cons, fan_id) == ConsentsOf(cons, fan_id) # {}

has_completed_consent(cons, fan_id) ==
    ConsentsOf(cons, fan_id) # {} /\ ConsentRow(cons, fan_id).agreed

\* (mutation) the ceiling itself still admits one more selection
can_select_more_tours_AtCeiling(sels, fan_id) ==
    selections_count(sels, fan_id) <= MAX_TOURS_PER_FAN

can_select_more_tours(sels, fan_id) ==
    selections_count(sels, fan_id) < MAX_TOURS_PER_FAN

(* models/consent.py *)

is_complete(c) ==
    c.agreed_to_terms /\ c.agreed_to_privacy /\ c.age_verified /\ c.agreed

complete_consent(c, now) ==
    IF is_complete(c) THEN [c EXCEPT !.agreed = TRUE, !.signed_at = At(now)]
    ELSE c

\* (mutation) the tickets are unlocked whatever the consent holds
unlock_tickets_Always(c) == [c EXCEPT !.ticket_unlocked = TRUE]

unlock_tickets(c) ==
    IF is_complete(c) THEN [c EXCEPT !.ticket_unlocked = TRUE] ELSE c

(* schemas/consent.py *)

\* (mutation) only the terms are validated
ConsentCreateValid_TermsOnly(terms, privacy, age) == terms

\* ConsentCreate's validators: each of the three must be true, else 422.
ConsentCreateValid(terms, privacy, age) == terms /\ privacy /\ age

\* Consent(...) as routes/consent.py constructs it.  agreed, ticket_unlocked
\* and photo_id_uploaded are not passed: they read None (falsy) on the new
\* object and the INSERT stores their default, False.
NewConsent(fan_id, terms, privacy, marketing, age) ==
    [fan_id |-> fan_id, agreed_to_terms |-> terms, agreed_to_privacy |-> privacy,
     agreed_to_marketing |-> marketing, age_verified |-> age,
     agreed |-> FALSE, ticket_unlocked |-> FALSE, signed_at |-> None,
     photo_id_uploaded |-> FALSE]

----------------------------------------------------------------------------
Init ==
    /\ fans = << >>
    /\ tours = << >>
    /\ selections = << >>
    /\ consents = << >>
    /\ files = {}
    /\ nextId = [fan |-> 1, tour |-> 1, selection |-> 1, consent |-> 1]
    /\ resp = [op |-> "none", code |-> 0]
    /\ sessions = << >>

----------------------------------------------------------------------------
(* routes/fans.py: register_fan *)

\* (mutation) no code is taken for used
UsedCodes_None == {}

UsedCodes == {fans[f].registration_code : f \in Ids(fans)}

RegisterFan(email, code) ==
    IF \E f \in Ids(fans) : fans[f].email = email
    THEN /\ resp' = [op |-> "register_fan", code |-> 400, email |-> email]
         /\ UNCHANGED <<fans, tours, selections, consents, files, nextId>>
    ELSE \* the loop redraws the code until no fan holds it
         /\ code \notin UsedCodes
         /\ fans' = Insert(fans, nextId.fan,
                           [email |-> email, registration_code |-> code])
         /\ nextId' = [nextId EXCEPT !.fan = @ + 1]
         /\ resp' = [op |-> "register_fan", code |-> 201, email |-> email,
                     fan |-> nextId.fan, registration_code |-> code]
         /\ UNCHANGED <<tours, selections, consents, files>>

----------------------------------------------------------------------------
(* routes/tours.py, routes/admin.py: the tour handlers *)

NewTour(limit, active) ==
    [ticket_limit |-> limit, tickets_claimed |-> 0, is_active |-> active]

CreateTour(limit, active) ==
    /\ tours' = Insert(tours, nextId.tour, NewTour(limit, active))
    /\ nextId' = [nextId EXCEPT !.tour = @ + 1]
    /\ resp' = [op |-> "create_tour", code |-> 201, tour |-> nextId.tour]
    /\ UNCHANGED <<fans, selections, consents, files>>

\* TourUpdate: every field optional; only the fields the body sets are applied.
TourUpdateFields == {"ticket_limit", "tickets_claimed", "is_active"}

TourUpdates ==
    {[f \in F |-> u[f]] :
        u \in [ticket_limit : Limits, tickets_claimed : 0..MaxClaimed,
               is_active : BOOLEAN],
        F \in SUBSET TourUpdateFields}

\* for field, value in update_data.items(): setattr(row, field, value)
ApplyUpdate(row, update_data) ==
    [f \in DOMAIN row |-> IF f \in DOMAIN update_data THEN update_data[f] ELSE row[f]]

UpdateTour(t, update_data) ==
    IF t \notin Ids(tours)
    THEN /\ resp' = [op |-> "update_tour", code |-> 404, tour |-> t]
         /\ UNCHANGED <<fans, tours, selections, consents, files, nextId>>
    ELSE /\ tours' = [tours EXCEPT ![t] = ApplyUpdate(@, update_data)]
         /\ resp' = [op |-> "update_tour", code |-> 200, tour |-> t,
                     fields |-> DOMAIN update_data]
         /\ UNCHANGED <<fans, selections, consents, files, nextId>>

\* db.delete(tour): the relationship cascade deletes the tour's selections.
DeleteTour(t) ==
    IF t \notin Ids(tours)
    THEN /\ resp' = [op |-> "delete_tour", code |-> 404, tour |-> t]
         /\ UNCHANGED <<fans, tours, selections, consents, files, nextId>>
    ELSE /\ tours' = Delete(tours, t)
         /\ selections' = [s \in {x \in Ids(selections) : selections[x].tour_id # t}
                             |-> selections[s]]
         /\ resp' = [op |-> "delete_tour", code |-> 204, tour |-> t]
         /\ UNCHANGED <<fans, consents, files, nextId>>

ToggleTourActive(t) ==
    IF t \notin Ids(tours)
    THEN /\ resp' = [op |-> "toggle_tour_active", code |-> 404, tour |-> t]
         /\ UNCHANGED <<fans, tours, selections, consents, files, nextId>>
    ELSE /\ tours' = [tours EXCEPT ![t].is_active = ~@]
         /\ resp' = [op |-> "toggle_tour_active", code |-> 200, tour |-> t]
         /\ UNCHANGED <<fans, selections, consents, files, nextId>>

----------------------------------------------------------------------------
(* routes/fans.py: the selection handlers *)

AddTourSelection(f, t) ==
    LET answer(code) == [op |-> "add_tour_selection", code |-> code,
                         fan |-> f, tour |-> t, selection |-> 0]
        reject(code) ==
            /\ resp' = answer(code)
            /\ UNCHANGED <<fans, tours, selections, consents, files, nextId>>
    IN  IF f \notin Ids(fans) THEN reject(404)
        ELSE IF ~can_select_more_tours(selections, f) THEN reject(400)
        ELSE IF t \notin Ids(tours) THEN reject(404)
        ELSE IF ~is_available(tours[t]) THEN reject(400)
        ELSE IF \E s \in Ids(selections) :
                   selections[s].fan_id = f /\ selections[s].tour_id = t
             THEN reject(400)
        ELSE /\ selections' = Insert(selections, nextId.selection, NewSelection(f, t))
             /\ nextId' = [nextId EXCEPT !.selection = @ + 1]
             /\ resp' = [answer(201) EXCEPT !.selection = nextId.selection]
             /\ UNCHANGED <<fans, tours, consents, files>>

Range(seq) == {seq[i] : i \in DOMAIN seq}

\* (mutation) only the first requested tour gets its row
BulkRows_FirstOnly(f, tour_ids, first) == first :> NewSelection(f, tour_ids[1])

\* The rows the loop over tour_ids adds, one per position, ids in order.
BulkRows(f, tour_ids, first) ==
    [s \in first..(first + Len(tour_ids) - 1) |-> NewSelection(f, tour_ids[s - first + 1])]

AddBulkTourSelections(f, tour_ids) ==
    LET answer(code) == [op |-> "add_bulk_tour_selections", code |-> code,
                         fan |-> f, tour_ids |-> tour_ids]
        reject(code) ==
            /\ resp' = answer(code)
            /\ UNCHANGED <<fans, tours, selections, consents, files, nextId>>
        current_count == selections_count(selections, f)
        new_count == Len(tour_ids)
        found == Range(tour_ids) \cap Ids(tours)
        existing_tour_ids == {selections[s].tour_id : s \in SelectionsOf(selections, f)}
    IN  \* SelectionBulkCreate: min_items=1, max_items=5
        IF new_count < 1 \/ new_count > MaxBulkItems THEN reject(422)
        ELSE IF f \notin Ids(fans) THEN reject(404)
        ELSE IF current_count + new_count > MAX_TOURS_PER_FAN THEN reject(400)
        ELSE IF Cardinality(found) # new_count THEN reject(404)
        ELSE IF \E t \in found : ~is_available(tours[t]) THEN reject(400)
        ELSE IF Range(tour_ids) \cap existing_tour_ids # {} THEN reject(400)
        ELSE /\ selections' = selections @@ BulkRows(f, tour_ids, nextId.selection)
             /\ nextId' = [nextId EXCEPT !.selection = @ + new_count]
             /\ resp' = answer(201)
             /\ UNCHANGED <<fans, tours, consents, files>>

RemoveTourSelection(f, s) ==
    LET answer(code) == [op |-> "remove_tour_selection", code |-> code,
                         fan |-> f, selection |-> s]
        reject(code) ==
            /\ resp' = answer(code)
            /\ UNCHANGED <<fans, tours, selections, consents, files, nextId>>
    IN  IF s \notin Ids(selections) \/ selections[s].fan_id # f THEN reject(404)
        ELSE IF has_ticket(selections[s]) THEN reject(400)
        ELSE /\ selections' = Delete(selections, s)
             /\ resp' = answer(204)
             /\ UNCHANGED <<fans, tours, consents, files, nextId>>

----------------------------------------------------------------------------
(* routes/consent.py *)

SubmitConsent(f, terms, privacy, marketing, age, now) ==
    LET body == [agreed_to_terms |-> terms, agreed_to_privacy |-> privacy,
                 age_verified |-> age]
        answer(code) == [op |-> "submit_consent", code |-> code, fan |-> f,
                         body |-> body]
        reject(code) ==
            /\ resp' = answer(code)
            /\ UNCHANGED <<fans, tours, selections, consents, files, nextId>>
        \* Consent(...); consent.complete_consent(client_ip); consent.unlock_tickets()
        consent == unlock_tickets(complete_consent(
                       NewConsent(f, terms, privacy, marketing, age), now))
    IN  \* ConsentCreate's validators reject the body before the handler runs
        IF ~ConsentCreateValid(terms, privacy, age) THEN reject(422)
        ELSE IF f \notin Ids(fans) THEN reject(404)
        ELSE IF ConsentsOf(consents, f) # {} THEN reject(400)
        ELSE /\ consents' = Insert(consents, nextId.consent, consent)
             /\ nextId' = [nextId EXCEPT !.consent = @ + 1]
             /\ resp' = [op |-> "submit_consent", code |-> 201, fan |-> f,
                         body |-> body,
                         consent |-> nextId.consent, tickets_unlocked |-> TRUE]
             /\ UNCHANGED <<fans, tours, selections, files>>

\* ConsentUpdate: agreed_to_marketing (and contact / signature texts, which no
\* other code reads), each optional.
ConsentUpdates == {<< >>} \cup {[agreed_to_marketing |-> m] : m \in BOOLEAN}

\* The first consent row of the fan, as .first() returns it.
ConsentId(f) == CHOOSE c \in ConsentsOf(consents, f) :
                    \A d \in ConsentsOf(consents, f) : c <= d

UpdateConsent(f, update_data) ==
    IF ConsentsOf(consents, f) = {}
    THEN /\ resp' = [op |-> "update_consent", code |-> 404, fan |-> f]
         /\ UNCHANGED <<fans, tours, selections, consents, files, nextId>>
    ELSE /\ consents' = [consents EXCEPT ![ConsentId(f)] = ApplyUpdate(@, update_data)]
         /\ resp' = [op |-> "update_consent", code |-> 200, fan |-> f]
         /\ UNCHANGED <<fans, tours, selections, files, nextId>>

UploadPhotoId(f, type_ok, save_ok) ==
    LET reject(code) ==
            /\ resp' = [op |-> "upload_photo_id", code |-> code, fan |-> f]
            /\ UNCHANGED <<fans, tours, selections, consents, files, nextId>>
    IN  IF ~type_ok THEN reject(400)
        ELSE IF ConsentsOf(consents, f) = {} THEN reject(404)
        ELSE IF ~save_ok THEN reject(500)
        ELSE /\ consents' = [consents EXCEPT ![ConsentId(f)].photo_id_uploaded = TRUE]
             /\ resp' = [op |-> "upload_photo_id", code |-> 200, fan |-> f]
             /\ UNCHANGED <<fans, tours, selections, files, nextId>>

DeleteConsent(f) ==
    IF ConsentsOf(consents, f) = {}
    THEN /\ resp' = [op |-> "delete_consent", code |-> 404, fan |-> f]
         /\ UNCHANGED <<fans, tours, selections, consents, files, nextId>>
    ELSE /\ consents' = Delete(consents, ConsentId(f))
         /\ resp' = [op |-> "delete_consent", code |-> 204, fan |-> f]
         /\ UNCHANGED <<fans, tours, selections, files, nextId>>

----------------------------------------------------------------------------
(* utils/validators.py, services/qr_service.py, services/ticket_generator.py *)

\* f"TKT-{timestamp}-{fan_id}-{tour_id}-{random_suffix}"
generate_ticket_id(fan_id, tour_id, now, random_suffix) ==
    <<"TKT", now, fan_id, tour_id, random_suffix>>

\* The data URI of the QR image of the bare ticket id.
generate_ticket_qr_code(ticket_id) == <<"data:image/png;base64">> \o ticket_id

\* os.path.join(ticket_dir, f"VIP_Ticket_{fan_name}_{tour_title}_{ticket_id}.pdf");
\* the fan's name and the tour's title are fixed per row here and stand as the ids.
PdfPath(fan_id, tour_id, ticket_id) ==
    <<"./tickets/generated", "VIP_Ticket", fan_id, tour_id>> \o ticket_id \o <<".pdf">>

\* (mutation) the ticket fields are written and the selection is not confirmed
WriteTicket_NoConfirm(sel, ticket_id, qr, pdf_path, now) ==
    [sel EXCEPT !.ticket_id = ticket_id, !.ticket_qr_code = qr,
                !.ticket_pdf_path = pdf_path, !.ticket_generated_at = <<now>>]

\* ticket_generator.py 75-79: the ticket fields of the selection, then confirm.
WriteTicket(sel, ticket_id, qr, pdf_path, now) ==
    confirm_selection(
        [sel EXCEPT !.ticket_id = ticket_id, !.ticket_qr_code = qr,
                    !.ticket_pdf_path = pdf_path, !.ticket_generated_at = At(now)],
        now)

\* (mutation) the counter is left as it was
ClaimTicket_Skipped(tour) == tour

\* (mutation) the counter is counted down
ClaimTicket_Down(tour) == [tour EXCEPT !.tickets_claimed = @ - 1]

\* ticket_generator.py 82: tour.tickets_claimed += 1
ClaimTicket(tour) == [tour EXCEPT !.tickets_claimed = @ + 1]

\* The tables and the directory one request works on.
Db == [selections |-> selections, tours |-> tours, files |-> files]

\* (mutation) the fields and the counter are written before the render is looked at
generate_ticket_WritesFirst(db, s, now, random_suffix, pdf_ok) ==
    LET sel == db.selections[s]
        ticket_id == generate_ticket_id(sel.fan_id, sel.tour_id, now, random_suffix)
        pdf_path == PdfPath(sel.fan_id, sel.tour_id, ticket_id)
    IN  [ok |-> pdf_ok, ticket_id |-> ticket_id,
         db |-> [selections |->
                     [db.selections EXCEPT
                         ![s] = WriteTicket(@, ticket_id,
                                            generate_ticket_qr_code(ticket_id),
                                            pdf_path, now)],
                 tours |-> [db.tours EXCEPT ![sel.tour_id] = ClaimTicket(@)],
                 files |-> IF pdf_ok THEN db.files \cup {pdf_path} ELSE db.files]]

\* generate_ticket: ok = FALSE is the exception raised when the PDF render fails.
generate_ticket(db, s, now, random_suffix, pdf_ok) ==
    LET sel == db.selections[s]
        ticket_id == generate_ticket_id(sel.fan_id, sel.tour_id, now, random_suffix)
        qr == generate_ticket_qr_code(ticket_id)
        pdf_path == PdfPath(sel.fan_id, sel.tour_id, ticket_id)
    IN  IF ~pdf_ok
        THEN [ok |-> FALSE, ticket_id |-> ticket_id, db |-> db]
        ELSE [ok |-> TRUE, ticket_id |-> ticket_id,
              db |-> [selections |->
                          [db.selections EXCEPT
                              ![s] = WriteTicket(@, ticket_id, qr, pdf_path, now)],
                      tours |-> [db.tours EXCEPT ![sel.tour_id] = ClaimTicket(@)],
                      files |-> db.files \cup {pdf_path}]]

Min(S) == CHOOSE x \in S : \A y \in S : x <= y

\* generate_tickets_for_fan (service): the loop over fan.selections, in id order.
\* rnd[s] is the suffix drawn and the outcome of the render for selection s.
RECURSIVE IssueEach(_, _, _, _, _)
IssueEach(db, todo, now, rnd, tickets) ==
    IF todo = {} THEN [db |-> db, tickets |-> tickets]
    ELSE LET s == Min(todo)
             sel == db.selections[s]
             rest == todo \ {s}
         IN  IF sel.status \notin {"confirmed", "pending"}
             THEN IssueEach(db, rest, now, rnd, tickets)
             ELSE IF has_ticket(sel)
             THEN IssueEach(db, rest, now, rnd,
                      Append(tickets, [selection |-> s, ticket_id |-> sel.ticket_id,
                                       already_generated |-> TRUE]))
             ELSE LET r == generate_ticket(db, s, now, rnd[s].suffix, rnd[s].pdf_ok)
                  IN  IF r.ok
                      THEN IssueEach(r.db, rest, now, rnd,
                               Append(tickets, [selection |-> s, ticket_id |-> r.ticket_id,
                                                already_generated |-> FALSE]))
                      ELSE IssueEach(db, rest, now, rnd, tickets)

Draws == [suffix : Suffixes, pdf_ok : BOOLEAN]

Commit(db) ==
    /\ selections' = db.selections
    /\ tours' = db.tours
    /\ files' = db.files

(* routes/tickets.py *)

GenerateTicketsForFan(f, now, rnd) ==
    LET reject(code) ==
            /\ resp' = [op |-> "generate_tickets_for_fan", code |-> code, fan |-> f]
            /\ UNCHANGED <<fans, tours, selections, consents, files, nextId>>
        r == IssueEach(Db, SelectionsOf(selections, f), now, rnd, << >>)
    IN  IF f \notin Ids(fans) THEN reject(404)
        ELSE IF ~has_completed_consent(consents, f) THEN reject(400)
        ELSE IF selections_count(selections, f) = 0 THEN reject(400)
        ELSE /\ Commit(r.db)
             /\ resp' = [op |-> "generate_tickets_for_fan", code |-> 200, fan |-> f,
                         tickets |-> r.tickets]
             /\ UNCHANGED <<fans, consents, nextId>>

GenerateSingleTicket(f, s, now, random_suffix, pdf_ok) ==
    LET answer(code) == [op |-> "generate_single_ticket", code |-> code,
                         fan |-> f, selection |-> s]
        reject(code) ==
            /\ resp' = answer(code)
            /\ UNCHANGED <<fans, tours, selections, consents, files, nextId>>
        r == generate_ticket(Db, s, now, random_suffix, pdf_ok)
    IN  IF f \notin Ids(fans) THEN reject(404)
        ELSE IF ~has_completed_consent(consents, f) THEN reject(400)
        ELSE IF s \notin Ids(selections) \/ selections[s].fan_id # f THEN reject(404)
        ELSE IF has_ticket(selections[s])
        THEN /\ resp' = [op |-> "generate_single_ticket", code |-> 200,
                         fan |-> f, selection |-> s,
                         ticket_id |-> selections[s].ticket_id,
                         already_generated |-> TRUE]
             /\ UNCHANGED <<fans, tours, selections, consents, files, nextId>>
        ELSE IF ~r.ok THEN reject(500)
        ELSE /\ Commit(r.db)
             /\ resp' = [op |-> "generate_single_ticket", code |-> 200,
                         fan |-> f, selection |-> s, ticket_id |-> r.ticket_id,
                         already_generated |-> FALSE]
             /\ UNCHANGED <<fans, consents, nextId>>

\* regenerate_ticket (service): remove the old PDF when it is there, then
\* generate_ticket, whatever the selection holds.
RemoveOldPdf(db, s) ==
    [db EXCEPT !.files = @ \ {db.selections[s].ticket_pdf_path}]

RegenerateTicket(s, now, random_suffix, pdf_ok) ==
    LET r == generate_ticket(RemoveOldPdf(Db, s), s, now, random_suffix, pdf_ok)
    IN  IF s \notin Ids(selections)
        THEN /\ resp' = [op |-> "regenerate_ticket", code |-> 404, selection |-> s]
             /\ UNCHANGED <<fans, tours, selections, consents, files, nextId>>
        ELSE /\ Commit(r.db)
             /\ resp' = [op |-> "regenerate_ticket",
                         code |-> IF r.ok THEN 200 ELSE 500, selection |-> s,
                         ticket_id |-> IF r.ok THEN r.ticket_id ELSE None]
             /\ UNCHANGED <<fans, consents, nextId>>

\* (mutation) every selection with a ticket is taken for the holder
Holders_AnyTicket(ticket_id) ==
    {s \in Ids(selections) : selections[s].ticket_id # None}

\* verify_ticket (service): the first selection holding the ticket id, or None.
Holders(ticket_id) == {s \in Ids(selections) : selections[s].ticket_id = ticket_id}

VerifyTicket(ticket_id) ==
    /\ resp' = IF Holders(ticket_id) = {}
               THEN [op |-> "verify_ticket", code |-> 404, ticket_id |-> ticket_id]
               ELSE LET sel == selections[Min(Holders(ticket_id))]
                    IN  [op |-> "verify_ticket", code |-> 200, ticket_id |-> ticket_id,
                         fan |-> sel.fan_id, tour |-> sel.tour_id,
                         status |-> sel.status]
    /\ UNCHANGED <<fans, tours, selections, consents, files, nextId>>

DownloadTicket(ticket_id) ==
    /\ resp' = [op |-> "download_ticket", ticket_id |-> ticket_id,
                code |-> IF Holders(ticket_id) = {} THEN 404
                         ELSE LET sel == selections[Min(Holders(ticket_id))]
                              IN  IF sel.ticket_pdf_path = None THEN 404
                                  ELSE IF sel.ticket_pdf_path \notin files THEN 404
                                  ELSE 200]
    /\ UNCHANGED <<fans, tours, selections, consents, files, nextId>>

\* The ticket ids a request may name: every id held, and one that is not.
NamedTickets ==
    {selections[s].ticket_id : s \in {x \in Ids(selections) : selections[x].ticket_id # None}}
        \cup {generate_ticket_id(0, 0, "19700101000000", "0000")}

----------------------------------------------------------------------------
(* The requests explored, within the bounds. *)

\* The bounds, on the state a step leads to: rows ever inserted per table and
\* the height of the claimed counters. The requests bounded this way run one
\* after the other, each from its first line to its answer in one step.
Within(max_fans, max_tours, max_selections, max_consents) ==
    /\ nextId'.fan <= max_fans + 1
    /\ nextId'.tour <= max_tours + 1
    /\ nextId'.selection <= max_selections + 1
    /\ nextId'.consent <= max_consents + 1
    /\ \A t \in Ids(tours') : tours'[t].tickets_claimed <= MaxClaimed
    /\ UNCHANGED sessions    \* one request at a time: none is left in flight

Cap == Within(MaxFans, MaxTours, MaxSelections, MaxConsents)

\* One code the redraw loop of register_fan can end with.
FirstFree == IF CodeSpace \subseteq UsedCodes THEN {}
             ELSE {CHOOSE c \in CodeSpace : c \notin UsedCodes}

\* One email of no fan yet.
FreshEmail == IF Emails \subseteq {fans[f].email : f \in Ids(fans)} THEN {}
              ELSE {CHOOSE e \in Emails : \A f \in Ids(fans) : fans[f].email # e}

FanIds == Named(fans, nextId.fan)
TourIds == Named(tours, nextId.tour)
SelectionIds == Named(selections, nextId.selection)

\* Issuance: registration, tours on offer, selections, consent and the three
\* issuance requests.
Next ==
    \/ \E email \in FreshEmail, code \in FirstFree : RegisterFan(email, code) /\ Cap
    \/ CreateTour(1, TRUE) /\ Cap
    \/ \E f \in FanIds, t \in TourIds : AddTourSelection(f, t) /\ Cap
    \/ \E f \in FanIds, agree \in BOOLEAN, now \in Times :
          SubmitConsent(f, agree, TRUE, FALSE, TRUE, now) /\ Cap
    \/ \E f \in FanIds, now \in Times :
          \E rnd \in [SelectionsOf(selections, f) -> Draws] :
             GenerateTicketsForFan(f, now, rnd) /\ Cap
    \/ \E f \in FanIds, s \in SelectionIds, now \in Times, sfx \in Suffixes,
          pdf_ok \in BOOLEAN : GenerateSingleTicket(f, s, now, sfx, pdf_ok) /\ Cap
    \/ \E s \in SelectionIds, now \in Times, sfx \in Suffixes, pdf_ok \in BOOLEAN :
          RegenerateTicket(s, now, sfx, pdf_ok) /\ Cap

Spec == Init /\ [][Next]_vars

----------------------------------------------------------------------------
(* Properties of issuance *)

\* What the claims call "has a ticket", "has completed consent": stated on
\* the rows.
HoldsTicket(sel) == sel.ticket_id # None /\ sel.ticket_pdf_path # None
ConsentAgreed(f) ==
    \E c \in Ids(consents) : consents[c].fan_id = f /\ consents[c].agreed

\* The step answers a request that ran generate_ticket on selection s with success.
Issued(s) ==
    /\ resp'.op \in {"generate_single_ticket", "regenerate_ticket"}
    /\ resp'.code = 200
    /\ resp'.selection = s
    /\ resp'.op = "generate_single_ticket" => ~resp'.already_generated

\* C1: a successful generate_ticket for a selection writes its ticket_id, QR
\* payload, pdf path and ticket_generated_at, confirms it with confirmed_at set,
\* and raises tickets_claimed of its tour by exactly 1, in the one step; no other
\* selection and no other tour changes.
C1_IssueWritesOnce ==
    [][\A s \in Ids(selections) : Issued(s) =>
          LET t == selections[s].tour_id
              before == selections[s]
              after == selections'[s]
          IN  /\ Ids(selections') = Ids(selections) /\ Ids(tours') = Ids(tours)
              /\ after.ticket_id = resp'.ticket_id /\ after.ticket_id # None
              /\ after.ticket_qr_code # None
              /\ after.ticket_pdf_path # None
              /\ after.ticket_pdf_path \in files'
              /\ after.ticket_generated_at # None
              /\ after.status = "confirmed" /\ after.confirmed_at # None
              /\ after.fan_id = before.fan_id /\ after.tour_id = before.tour_id
              /\ tours'[t].tickets_claimed = tours[t].tickets_claimed + 1
              /\ tours'[t].ticket_limit = tours[t].ticket_limit
              /\ tours'[t].is_active = tours[t].is_active
              /\ \A o \in Ids(selections) \ {s} : selections'[o] = selections[o]
              /\ \A o \in Ids(tours) \ {t} : tours'[o] = tours[o]]_vars

\* C1 witness: a ticket was just issued while another selection and another
\* tour exist.
C1_Witness ==
    /\ resp.op = "regenerate_ticket" /\ resp.code = 200
    /\ resp.selection \in Ids(selections)
    /\ selections[resp.selection].status = "confirmed"
    /\ \E o \in Ids(selections) : o # resp.selection
    /\ \E t \in Ids(tours) : t # selections[resp.selection].tour_id

\* The step answers an issuance request (single, bulk, regenerate) that covers
\* selection s.
IssuanceRequestOn(s) ==
    \/ /\ resp'.op \in {"generate_single_ticket", "regenerate_ticket"}
       /\ resp'.selection = s
    \/ /\ resp'.op = "generate_tickets_for_fan"
       /\ resp'.fan = selections[s].fan_id

\* C2: an issuance request on a selection that already has a ticket does not
\* raise tickets_claimed of its tour again and creates no second PDF file.
C2_NoSecondIssue ==
    [][\A s \in Ids(selections) :
          (HoldsTicket(selections[s]) /\ IssuanceRequestOn(s)) =>
              /\ tours'[selections[s].tour_id].tickets_claimed
                     = tours[selections[s].tour_id].tickets_claimed
              /\ files' \subseteq files]_vars

\* C3: generate_single_ticket for a selection of the fan that already has a
\* ticket answers the existing ticket_id with already_generated = true and
\* changes nothing.
C3_SingleIdempotent ==
    [][\A s \in Ids(selections) :
          (/\ HoldsTicket(selections[s])
           /\ resp'.op = "generate_single_ticket"
           /\ resp'.selection = s
           /\ resp'.fan = selections[s].fan_id) =>
              /\ resp'.code = 200
              /\ resp'.already_generated
              /\ resp'.ticket_id = selections[s].ticket_id
              /\ UNCHANGED <<fans, tours, selections, consents, files, nextId>>]_vars

\* C6: under sequential selection-add and issuance requests every tour keeps
\* tickets_claimed <= ticket_limit.
C6_ClaimedWithinLimit ==
    \A t \in Ids(tours) : tours[t].tickets_claimed <= tours[t].ticket_limit

\* C9: both generate requests, for a fan with no consent row or whose consent is
\* not agreed, are answered 400 and change no selection, tour or file.
C9_ConsentGate ==
    [][\A f \in Ids(fans) :
          (/\ resp'.op \in {"generate_single_ticket", "generate_tickets_for_fan"}
           /\ resp'.fan = f
           /\ ~ConsentAgreed(f)) =>
              /\ resp'.code = 400
              /\ UNCHANGED <<fans, tours, selections, consents, files, nextId>>]_vars

\* C9 witness: a fan whose consent row is not agreed asked for the ticket of
\* a pending selection of theirs and got 400.
C9_Witness ==
    /\ resp.op = "generate_single_ticket" /\ resp.code = 400
    /\ resp.fan \in Ids(fans)
    /\ \E c \in Ids(consents) : consents[c].fan_id = resp.fan /\ ~consents[c].agreed
    /\ resp.selection \in Ids(selections)
    /\ selections[resp.selection].fan_id = resp.fan
    /\ selections[resp.selection].status = "pending"

----------------------------------------------------------------------------
(* The consent form: submission, update, photo id, deletion. *)

CapConsent == Within(MaxFans, 0, 0, MaxConsentRows)

NextConsent ==
    \/ \E email \in FreshEmail, code \in FirstFree : RegisterFan(email, code) /\ CapConsent
    \/ \E f \in FanIds, terms \in BOOLEAN, privacy \in BOOLEAN, marketing \in BOOLEAN,
          age \in BOOLEAN, now \in Times :
          SubmitConsent(f, terms, privacy, marketing, age, now) /\ CapConsent
    \/ \E f \in FanIds, update_data \in ConsentUpdates :
          UpdateConsent(f, update_data) /\ CapConsent
    \/ \E f \in FanIds, type_ok \in BOOLEAN, save_ok \in BOOLEAN :
          UploadPhotoId(f, type_ok, save_ok) /\ CapConsent
    \/ \E f \in FanIds : DeleteConsent(f) /\ CapConsent

SpecConsent == Init /\ [][NextConsent]_vars

\* C8: after a successful submit_consent the consent row it stored has
\* agreed = true, signed_at set and ticket_unlocked = true, the value the answer
\* reports as tickets_unlocked.
C8_SubmitCompletes ==
    (resp.op = "submit_consent" /\ resp.code = 201) =>
        /\ resp.consent \in Ids(consents)
        /\ consents[resp.consent].fan_id = resp.fan
        /\ consents[resp.consent].agreed
        /\ consents[resp.consent].signed_at # None
        /\ consents[resp.consent].ticket_unlocked
        /\ consents[resp.consent].ticket_unlocked = resp.tickets_unlocked

\* The consent rows of fan f, read off the table.
RowsOf(f) == {c \in Ids(consents) : consents[c].fan_id = f}

\* C10: a submit_consent that reaches the handler for a fan who has a consent
\* row is answered 400 and leaves the consents as they were; and no step leaves
\* a fan with two consent rows.
C10_SingleShot ==
    [][/\ \A f \in Ids(fans) :
            (/\ RowsOf(f) # {}
             /\ resp'.op = "submit_consent" /\ resp'.fan = f
             /\ resp'.code # 422) =>
                /\ resp'.code = 400
                /\ consents' = consents
       /\ \A f \in Ids(fans') :
            Cardinality({c \in Ids(consents') : consents'[c].fan_id = f}) <= 1]_vars

\* C10 witness: a second submission was answered 400 and the fan's one row,
\* changed since by an update, stands.
C10_Witness ==
    /\ resp.op = "submit_consent" /\ resp.code = 400
    /\ Cardinality(RowsOf(resp.fan)) = 1
    /\ \E c \in RowsOf(resp.fan) : consents[c].agreed_to_marketing
                                     /\ consents[c].photo_id_uploaded

----------------------------------------------------------------------------
(* The tours: administration, selection, removal and issuance. *)

CapTours == Within(MaxTourFans, MaxAdminTours, MaxSelections, 0)

NextTours ==
    \/ \E email \in FreshEmail, code \in FirstFree : RegisterFan(email, code) /\ CapTours
    \/ \E limit \in Limits, active \in BOOLEAN : CreateTour(limit, active) /\ CapTours
    \/ \E t \in TourIds, update_data \in TourUpdates :
          UpdateTour(t, update_data) /\ CapTours
    \/ \E t \in TourIds : DeleteTour(t) /\ CapTours
    \/ \E t \in TourIds : ToggleTourActive(t) /\ CapTours
    \/ \E f \in FanIds, t \in TourIds : AddTourSelection(f, t) /\ CapTours
    \/ \E f \in FanIds, s \in SelectionIds : RemoveTourSelection(f, s) /\ CapTours
    \/ \E s \in SelectionIds, now \in Times, sfx \in Suffixes, pdf_ok \in BOOLEAN :
          RegenerateTicket(s, now, sfx, pdf_ok) /\ CapTours

SpecTours == Init /\ [][NextTours]_vars

----------------------------------------------------------------------------
(* The selection ceiling: one fan, tours on offer, single and bulk adds, removals. *)

\* One fan registered, SeedActive tours created active and one created inactive.
InitLimit ==
    /\ fans = (1 :> [email |-> "a@b.com", registration_code |-> "VIP-AAAAAAAA"])
    /\ tours = [t \in 1..(SeedActive + 1) |-> NewTour(1, t <= SeedActive)]
    /\ selections = << >>
    /\ consents = << >>
    /\ files = {}
    /\ nextId = [fan |-> 2, tour |-> SeedActive + 2, selection |-> 1, consent |-> 1]
    /\ resp = [op |-> "none", code |-> 0]
    /\ sessions = << >>

CapLimit == nextId'.selection <= MaxLimitSelections + 1 /\ UNCHANGED sessions

FirstOf(S) == IF S = {} THEN {} ELSE {Min(S)}

\* The handlers tell tours apart by existence, availability and whether the fan
\* selected them.  A request names the first two available tours the fan has not
\* selected, the first it has selected, the first unavailable one, or no tour.
NamedTours(f) ==
    LET selected == {selections[s].tour_id : s \in SelectionsOf(selections, f)}
        fresh == {t \in Ids(tours) \ selected : is_available(tours[t])}
        closed == {t \in Ids(tours) : ~is_available(tours[t])}
    IN  FirstOf(fresh) \cup FirstOf(fresh \ FirstOf(fresh)) \cup FirstOf(selected)
           \cup FirstOf(closed) \cup {nextId.tour}

\* The bodies of the bulk requests: lists of tour ids, the empty list included.
BulkRequests(f) == UNION {[1..n -> NamedTours(f)] : n \in 0..MaxBulk}

NextLimit ==
    \/ \E f \in Ids(fans) : \E t \in NamedTours(f) : AddTourSelection(f, t) /\ CapLimit
    \/ \E f \in Ids(fans) : \E tour_ids \in BulkRequests(f) :
          AddBulkTourSelections(f, tour_ids) /\ CapLimit
    \/ \E f \in Ids(fans), s \in SelectionIds : RemoveTourSelection(f, s) /\ CapLimit

SpecLimit == InitLimit /\ [][NextLimit]_vars

----------------------------------------------------------------------------
(* Properties of the tours' counters and of the selection ceiling *)

\* C7 as stated: no step moves tickets_claimed of a tour to a smaller value.
C7_NeverDecreases ==
    [][\A t \in Ids(tours) \cap Ids(tours') :
          tours'[t].tickets_claimed >= tours[t].tickets_claimed]_vars

\* C7, amended: tickets_claimed of a tour moves to a smaller value only in an
\* update_tour request on that tour whose body sets tickets_claimed; issuance,
\* regenerate, selection add and removal, toggle and every other update never
\* lower it.
C7_DecreaseOnlyByUpdate ==
    [][\A t \in Ids(tours) \cap Ids(tours') :
          tours'[t].tickets_claimed < tours[t].tickets_claimed =>
              /\ resp'.op = "update_tour" /\ resp'.code = 200
              /\ resp'.tour = t
              /\ "tickets_claimed" \in resp'.fields]_vars

\* C7 witness: an update that set tickets_claimed left the counter at 0 on a
\* tour one of whose selections holds an issued ticket.
C7_Witness ==
    /\ resp.op = "update_tour" /\ resp.code = 200
    /\ "tickets_claimed" \in resp.fields
    /\ resp.tour \in Ids(tours)
    /\ tours[resp.tour].tickets_claimed = 0
    /\ \E s \in Ids(selections) : /\ selections[s].tour_id = resp.tour
                                   /\ HoldsTicket(selections[s])

\* The selections of fan f, read off a table.
Held(sels, f) == {s \in DOMAIN sels : sels[s].fan_id = f}

\* C4: no step leaves a fan with more than MAX_TOURS_PER_FAN selections; a
\* single add for a fan holding MAX_TOURS_PER_FAN selections, and a bulk add
\* whose tour ids added to the fan's count exceed it, are answered 400 and add
\* nothing.
C4_Ceiling ==
    [][/\ \A f \in Ids(fans') :
            Cardinality(Held(selections', f)) <= MAX_TOURS_PER_FAN
       /\ \A f \in Ids(fans) :
            /\ (/\ resp'.op = "add_tour_selection" /\ resp'.fan = f
                /\ Cardinality(Held(selections, f)) >= MAX_TOURS_PER_FAN) =>
                   (resp'.code = 400 /\ selections' = selections)
            /\ (/\ resp'.op = "add_bulk_tour_selections" /\ resp'.fan = f
                /\ resp'.code # 422
                /\ Cardinality(Held(selections, f)) + Len(resp'.tour_ids)
                       > MAX_TOURS_PER_FAN) =>
                   (resp'.code = 400 /\ selections' = selections)]_vars

\* C4 witness: a fan holding MAX_TOURS_PER_FAN selections asked for one more
\* tour, active, with tickets left and not among theirs, and got 400.
C4_Witness ==
    /\ resp.op = "add_tour_selection" /\ resp.code = 400
    /\ Cardinality(Held(selections, resp.fan)) = MAX_TOURS_PER_FAN
    /\ resp.tour \in Ids(tours)
    /\ tours[resp.tour].is_active
    /\ tours[resp.tour].tickets_claimed < tours[resp.tour].ticket_limit
    /\ \A s \in Held(selections, resp.fan) : selections[s].tour_id # resp.tour

\* A reason to reject the bulk request req of fan f.
BulkFault(f, req) ==
    \/ Cardinality(Held(selections, f)) + Len(req) > MAX_TOURS_PER_FAN
    \/ \E i \in 1..Len(req) :
          \/ req[i] \notin Ids(tours)
          \/ /\ req[i] \in Ids(tours)
             /\ \/ ~tours[req[i]].is_active
                \/ tours[req[i]].tickets_claimed >= tours[req[i]].ticket_limit
          \/ \E s \in Held(selections, f) : selections[s].tour_id = req[i]

\* C5: add_bulk_tour_selections either answers 201 and adds one pending
\* selection of the fan per requested tour id, the rows there before untouched,
\* or adds nothing and leaves the selections as they were; it adds nothing when
\* the ceiling would be exceeded or a tour id is unknown, unavailable or already
\* selected by the fan.
C5_BulkAllOrNothing ==
    [][\A f \in Ids(fans) :
          (resp'.op = "add_bulk_tour_selections" /\ resp'.fan = f) =>
              LET req == resp'.tour_ids
                  before == Held(selections, f)
                  added == DOMAIN selections' \ DOMAIN selections
              IN  /\ BulkFault(f, req) => resp'.code # 201
                  /\ \/ /\ resp'.code = 201
                        /\ \A s \in DOMAIN selections : /\ s \in DOMAIN selections'
                                                         /\ selections'[s] = selections[s]
                        /\ Cardinality(added) = Len(req)
                        /\ \A s \in added : /\ selections'[s].fan_id = f
                                             /\ selections'[s].status = "pending"
                        /\ \A i \in 1..Len(req) :
                              \E s \in added : selections'[s].tour_id = req[i]
                     \/ /\ resp'.code # 201
                        /\ selections' = selections]_vars

\* C5 witness: a bulk request of a tour the fan could have added followed by
\* one the fan already holds was answered 400, the first not added.
C5_Witness ==
    /\ resp.op = "add_bulk_tour_selections" /\ resp.code = 400
    /\ Len(resp.tour_ids) = 2
    /\ resp.tour_ids[1] \in Ids(tours)
    /\ tours[resp.tour_ids[1]].is_active
    /\ tours[resp.tour_ids[1]].tickets_claimed < tours[resp.tour_ids[1]].ticket_limit
    /\ \A s \in Held(selections, resp.fan) : selections[s].tour_id # resp.tour_ids[1]
    /\ \E s \in Held(selections, resp.fan) : selections[s].tour_id = resp.tour_ids[2]
    /\ Cardinality(Held(selections, resp.fan)) + 2 <= MAX_TOURS_PER_FAN

----------------------------------------------------------------------------
(* Properties of the consent rows *)

\* All the required consent items of row c, read off its columns.
RowComplete(c) ==
    c.agreed_to_terms /\ c.agreed_to_privacy /\ c.age_verified /\ c.agreed

C12_RequiredAgreements ==
    [][/\ (/\ resp'.op = "submit_consent"
           /\ \/ ~resp'.body.agreed_to_terms
              \/ ~resp'.body.agreed_to_privacy
              \/ ~resp'.body.age_verified) =>
              (resp'.code = 422 /\ consents' = consents)
       /\ \A c \in Ids(consents') :
              /\ consents'[c].agreed_to_terms
              /\ consents'[c].agreed_to_privacy
              /\ consents'[c].age_verified]_vars

\* C12 witness: a fan with no consent row submitted a body that agrees to the
\* terms but does not verify the age, and got 422.
C12_Witness ==
    /\ resp.op = "submit_consent" /\ resp.code = 422
    /\ resp.body.agreed_to_terms /\ ~resp.body.age_verified
    /\ resp.fan \in Ids(fans)
    /\ RowsOf(resp.fan) = {}

----------------------------------------------------------------------------
(* The life of a selection: adds, single and bulk, removal, issuance, and the
   tours going on and off offer. *)

CapSelect == Within(MaxFans, MaxTours, MaxSelections, 0)

\* The bodies of the bulk requests here: lists over every tour id a request
\* may name.
BulkLists == UNION {[1..n -> TourIds] : n \in 0..MaxBulk}

\* One of the suffixes a ticket id may end with.
OneSuffix == {CHOOSE sfx \in Suffixes : TRUE}

NextSelect ==
    \/ \E email \in FreshEmail, code \in FirstFree : RegisterFan(email, code) /\ CapSelect
    \/ CreateTour(1, TRUE) /\ CapSelect
    \/ \E t \in TourIds : ToggleTourActive(t) /\ CapSelect
    \/ \E f \in FanIds, t \in TourIds : AddTourSelection(f, t) /\ CapSelect
    \/ \E f \in FanIds, tour_ids \in BulkLists :
          AddBulkTourSelections(f, tour_ids) /\ CapSelect
    \/ \E f \in FanIds, s \in SelectionIds : RemoveTourSelection(f, s) /\ CapSelect
    \/ \E s \in SelectionIds, now \in Times, sfx \in OneSuffix, pdf_ok \in BOOLEAN :
          RegenerateTicket(s, now, sfx, pdf_ok) /\ CapSelect

SpecSelect == Init /\ [][NextSelect]_vars

----------------------------------------------------------------------------
(* Properties of the selections *)

\* C13: the status of a selection changes only from pending to confirmed: a
\* confirmed selection stays confirmed as long as it exists, and cancelled and
\* expired are entered only from pending.
C13_StatusMachine ==
    [][\A s \in Ids(selections) \cap Ids(selections') :
          /\ selections[s].status = "confirmed" => selections'[s].status = "confirmed"
          /\ (/\ selections'[s].status \in {"cancelled", "expired"}
              /\ selections'[s].status # selections[s].status) =>
                 selections[s].status = "pending"
          /\ (/\ selections'[s].status = "confirmed"
              /\ selections[s].status # "confirmed") =>
                 selections[s].status = "pending"]_vars

\* C13 witness: the one selection ever made was issued a ticket twice, the
\* second time while confirmed, and is confirmed.
C13_Witness ==
    /\ resp.op = "regenerate_ticket" /\ resp.code = 200
    /\ nextId.selection = 2
    /\ resp.selection \in Ids(selections)
    /\ selections[resp.selection].status = "confirmed"
    /\ selections[resp.selection].tour_id \in Ids(tours)
    /\ tours[selections[resp.selection].tour_id].tickets_claimed = 2

\* C14: after every step a selection is confirmed exactly when it holds a
\* ticket (ticket_id and ticket_pdf_path), and a selection the step added is
\* pending with no ticket field set.
C14_ConfirmedIffTicket ==
    [][/\ \A s \in Ids(selections') :
            (selections'[s].status = "confirmed") <=> HoldsTicket(selections'[s])
       /\ \A s \in Ids(selections') \ Ids(selections) :
            /\ selections'[s].status = "pending"
            /\ selections'[s].ticket_id = None
            /\ selections'[s].ticket_qr_code = None
            /\ selections'[s].ticket_pdf_path = None
            /\ selections'[s].ticket_generated_at = None
            /\ selections'[s].confirmed_at = None]_vars

\* C14 witness: a selection was just added, pending, beside a confirmed one
\* that holds its ticket.
C14_Witness ==
    /\ resp.op = "add_tour_selection" /\ resp.code = 201
    /\ resp.selection \in Ids(selections)
    /\ selections[resp.selection].status = "pending"
    /\ \E o \in Ids(selections) : /\ selections[o].status = "confirmed"
                                   /\ HoldsTicket(selections[o])

\* The tables and the directory are as they were.
DataUnchanged == UNCHANGED <<fans, tours, selections, consents, files, nextId>>

\* C15: remove_tour_selection on a selection of the fan that holds a ticket is
\* answered 400 and changes nothing; on one of the fan without a ticket it is
\* answered 204, deletes that row and changes nothing else; on a selection id
\* that is not the fan's it is answered 404 and changes nothing.
C15_RemoveGuarded ==
    [][resp'.op = "remove_tour_selection" =>
          LET s == resp'.selection
              own == s \in Ids(selections) /\ selections[s].fan_id = resp'.fan
          IN  /\ (own /\ HoldsTicket(selections[s])) =>
                     (resp'.code = 400 /\ DataUnchanged)
              /\ (own /\ ~HoldsTicket(selections[s])) =>
                     /\ resp'.code = 204
                     /\ Ids(selections') = Ids(selections) \ {s}
                     /\ \A o \in Ids(selections') : selections'[o] = selections[o]
                     /\ UNCHANGED <<fans, tours, consents, files, nextId>>
              /\ ~own => (resp'.code = 404 /\ DataUnchanged)]_vars

\* C15 witness: the fan asked to remove their selection that holds a ticket
\* and got 400; the selection and its ticket stand beside another selection.
C15_Witness ==
    /\ resp.op = "remove_tour_selection" /\ resp.code = 400
    /\ resp.selection \in Ids(selections)
    /\ selections[resp.selection].fan_id = resp.fan
    /\ HoldsTicket(selections[resp.selection])
    /\ tours[selections[resp.selection].tour_id].tickets_claimed >= 1
    /\ \E o \in Ids(selections) : o # resp.selection

\* Tour t is not on offer: inactive, or tickets_claimed has reached ticket_limit.
Closed(t) ==
    /\ t \in Ids(tours)
    /\ \/ ~tours[t].is_active
       \/ tours[t].tickets_claimed >= tours[t].ticket_limit

\* C16: a step adds a selection only for a tour that was active with
\* tickets_claimed < ticket_limit before it; a single add by a fan for a tour
\* not on offer, and a bulk add by a fan of distinct existing tours one of which
\* is not on offer, is answered 400; no add naming a tour not on offer adds any
\* row.
C16_OnlyAvailable ==
    [][/\ \A s \in Ids(selections') \ Ids(selections) :
            /\ selections'[s].tour_id \in Ids(tours)
            /\ ~Closed(selections'[s].tour_id)
       /\ (/\ resp'.op = "add_tour_selection"
           /\ Closed(resp'.tour)) =>
              /\ selections' = selections
              /\ resp'.fan \in Ids(fans) => resp'.code = 400
       /\ (/\ resp'.op = "add_bulk_tour_selections"
           /\ \E i \in 1..Len(resp'.tour_ids) : Closed(resp'.tour_ids[i])) =>
              /\ selections' = selections
              /\ (/\ resp'.fan \in Ids(fans)
                  /\ \A i \in 1..Len(resp'.tour_ids) :
                        /\ resp'.tour_ids[i] \in Ids(tours)
                        /\ \A j \in 1..Len(resp'.tour_ids) :
                              resp'.tour_ids[j] = resp'.tour_ids[i] => j = i) =>
                     resp'.code = 400]_vars

\* C16 witness: a fan with no selection asked for an active tour whose
\* tickets_claimed had reached its ticket_limit by issuance, and got 400.
C16_Witness ==
    /\ resp.op = "add_tour_selection" /\ resp.code = 400
    /\ resp.fan \in Ids(fans)
    /\ Held(selections, resp.fan) = {}
    /\ resp.tour \in Ids(tours)
    /\ tours[resp.tour].is_active
    /\ tours[resp.tour].tickets_claimed >= tours[resp.tour].ticket_limit
    /\ \E o \in Ids(selections) : /\ selections[o].tour_id = resp.tour
                                   /\ HoldsTicket(selections[o])

\* C19: no step leaves a fan with two selections of one tour; a single add by
\* a fan for a tour they hold is answered 400 and adds nothing; a bulk add that
\* names a tour the fan holds, or names a tour twice, is rejected and adds
\* nothing.
C19_OnePerTour ==
    [][/\ \A a, b \in Ids(selections') :
            (/\ selections'[a].fan_id = selections'[b].fan_id
             /\ selections'[a].tour_id = selections'[b].tour_id) => a = b
       /\ (/\ resp'.op = "add_tour_selection"
           /\ \E s \in Held(selections, resp'.fan) :
                 selections[s].tour_id = resp'.tour) =>
              (resp'.code = 400 /\ selections' = selections)
       /\ (/\ resp'.op = "add_bulk_tour_selections"
           /\ \/ \E i \in 1..Len(resp'.tour_ids) :
                    \E s \in Held(selections, resp'.fan) :
                       selections[s].tour_id = resp'.tour_ids[i]
              \/ \E i, j \in 1..Len(resp'.tour_ids) :
                    i # j /\ resp'.tour_ids[i] = resp'.tour_ids[j]) =>
              (resp'.code \in {400, 404} /\ selections' = selections)]_vars

\* C19 witness: a fan asked in one bulk request twice for a tour on offer that
\* they do not hold, and was rejected.
C19_Witness ==
    /\ resp.op = "add_bulk_tour_selections" /\ resp.code \in {400, 404}
    /\ resp.fan \in Ids(fans)
    /\ Len(resp.tour_ids) = 2
    /\ resp.tour_ids[1] = resp.tour_ids[2]
    /\ resp.tour_ids[1] \in Ids(tours)
    /\ ~Closed(resp.tour_ids[1])
    /\ \A s \in Held(selections, resp.fan) : selections[s].tour_id # resp.tour_ids[1]

----------------------------------------------------------------------------
(* Verification of tickets: issuance, re-issuance and look-ups by ticket id. *)

CapVerify == Within(MaxTourFans, MaxTours, MaxSelections, 0)

\* The ticket ids a look-up may name: those held, one never issued, and every
\* id an issuance for the fans and tours at hand can have produced.
VerifiableIds ==
    NamedTickets \cup
    {generate_ticket_id(f, t, now, sfx) :
        f \in Ids(fans), t \in Ids(tours), now \in Times, sfx \in Suffixes}

NextVerify ==
    \/ \E email \in FreshEmail, code \in FirstFree : RegisterFan(email, code) /\ CapVerify
    \/ CreateTour(1, TRUE) /\ CapVerify
    \/ \E f \in FanIds, t \in TourIds : AddTourSelection(f, t) /\ CapVerify
    \/ \E s \in SelectionIds, now \in Times, sfx \in Suffixes, pdf_ok \in BOOLEAN :
          RegenerateTicket(s, now, sfx, pdf_ok) /\ CapVerify
    \/ \E ticket_id \in VerifiableIds : VerifyTicket(ticket_id) /\ CapVerify

SpecVerify == Init /\ [][NextVerify]_vars

\* C17: verify_ticket answers 200 exactly when a selection holds the ticket id
\* asked for, and then reports that selection's fan, tour and status, the
\* status of a ticket holder being confirmed; otherwise it answers 404; it
\* changes nothing.
C17_VerifyLooksUp ==
    [][resp'.op = "verify_ticket" =>
          LET holding == {s \in Ids(selections) :
                             selections[s].ticket_id = resp'.ticket_id}
          IN  /\ DataUnchanged
              /\ holding = {} => resp'.code = 404
              /\ holding # {} =>
                    /\ resp'.code = 200
                    /\ \E s \in holding : /\ resp'.fan = selections[s].fan_id
                                           /\ resp'.tour = selections[s].tour_id
                                           /\ resp'.status = selections[s].status
                    /\ resp'.status = "confirmed"]_vars

\* C17 witness: the ticket of one of two ticket holders was verified.
C17_Witness ==
    /\ resp.op = "verify_ticket" /\ resp.code = 200
    /\ resp.status = "confirmed"
    /\ \E s, o \in Ids(selections) :
          /\ s # o
          /\ selections[s].ticket_id = resp.ticket_id
          /\ selections[s].fan_id = resp.fan /\ selections[s].tour_id = resp.tour
          /\ selections[o].ticket_id # None
          /\ selections[o].tour_id # resp.tour

----------------------------------------------------------------------------
(* Registration: any email with any code the redraw loop can end with. *)

CapRegister == Within(MaxRegistered, 0, 0, 0)

NextRegister ==
    \E email \in Emails, code \in CodeSpace : RegisterFan(email, code) /\ CapRegister

SpecRegister == Init /\ [][NextRegister]_vars

\* C18: no step leaves two fans with one email or with one registration code; a
\* registration with the email of a fan is answered 400 and adds no fan; the
\* code of a new fan is the code of no fan present before.
C18_UniqueFans ==
    [][/\ \A a, b \in Ids(fans') :
            (\/ fans'[a].email = fans'[b].email
             \/ fans'[a].registration_code = fans'[b].registration_code) => a = b
       /\ resp'.op = "register_fan" =>
            /\ (\E f \in Ids(fans) : fans[f].email = resp'.email) =>
                   (resp'.code = 400 /\ fans' = fans)
            /\ resp'.code = 201 =>
                   /\ Ids(fans') = Ids(fans) \cup {resp'.fan}
                   /\ resp'.fan \notin Ids(fans)
                   /\ fans'[resp'.fan].email = resp'.email
                   /\ \A f \in Ids(fans) :
                         /\ fans'[f] = fans[f]
                         /\ fans[f].registration_code # fans'[resp'.fan].registration_code]_vars

\* C18 witness: with two fans registered, a registration with the email of
\* one of them was answered 400.
C18_Witness ==
    /\ resp.op = "register_fan" /\ resp.code = 400
    /\ Cardinality(Ids(fans)) = 2
    /\ \E f \in Ids(fans) : fans[f].email = resp.email

----------------------------------------------------------------------------
(* Properties of the ticket ids *)

\* C20: two ticket ids generated for one (fan_id, tour_id) pair are different,
\* also within one second: the id a re-issue writes on a selection differs
\* from the id it replaces.
C20_FreshTicketId ==
    [][\A s \in Ids(selections) :
          (/\ resp'.op = "regenerate_ticket" /\ resp'.code = 200
           /\ resp'.selection = s
           /\ selections[s].ticket_id # None) =>
              selections'[s].ticket_id # selections[s].ticket_id]_vars

----------------------------------------------------------------------------
(* utils/validators.py: sanitize_filename, and the filenames built from it *)

\* A string is the sequence of its characters.  One character of each kind the
\* patterns tell apart: a letter, the underscore, a blank, the hyphen, the
\* dot, the two path separators and a character of no class.
Chars == {"a", "_", " ", "-", ".", "/", "\\", "$"}

\* \w and \s of the re module
IsWord(c) == c \in {"a", "_"}
IsSpace(c) == c = " "

\* re.sub(r'[^\w\s\-\.]', '', filename)
RemoveUnsafe(str) ==
    LET kept(c) == IsWord(c) \/ IsSpace(c) \/ c = "-" \/ c = "."
    IN  SelectSeq(str, kept)

RECURSIVE DropSpaces(_)
DropSpaces(str) ==
    IF str # << >> /\ IsSpace(Head(str)) THEN DropSpaces(Tail(str)) ELSE str

\* re.sub(r'[\s]+', '_', filename): every run of blanks becomes one underscore
RECURSIVE CollapseSpaces(_)
CollapseSpaces(str) ==
    IF str = << >> THEN << >>
    ELSE IF IsSpace(Head(str)) THEN <<"_">> \o CollapseSpaces(DropSpaces(Tail(str)))
    ELSE <<Head(str)>> \o CollapseSpaces(Tail(str))

RECURSIVE LStrip(_, _)
LStrip(str, chars) ==
    IF str # << >> /\ Head(str) \in chars THEN LStrip(Tail(str), chars) ELSE str

RECURSIVE RStrip(_, _)
RStrip(str, chars) ==
    IF str # << >> /\ str[Len(str)] \in chars
    THEN RStrip(SubSeq(str, 1, Len(str) - 1), chars) ELSE str

\* str.strip(chars)
Strip(str, chars) == RStrip(LStrip(str, chars), chars)

\* (mutation) the ends are not stripped
sanitize_filename_NoStrip(filename) == CollapseSpaces(RemoveUnsafe(filename))

sanitize_filename(filename) ==
    Strip(CollapseSpaces(RemoveUnsafe(filename)), {".", "_"})

\* f"VIP_Ticket_{fan_name}_{tour_title}_{ticket_id}.pdf"; the fixed parts and the
\* parts of the ticket id stand as one element each.
generate_pdf_filename(fan_name, tour_title, ticket_id) ==
    <<"VIP_Ticket_">> \o sanitize_filename(fan_name) \o <<"_">>
        \o sanitize_filename(tour_title) \o <<"_">>
        \o [i \in DOMAIN ticket_id |-> ToString(ticket_id[i])] \o <<".pdf">>

\* f"photo_id_{fan_id}_{original_filename}"
PhotoIdFilename(fan_id, upload_name) ==
    <<"photo_id_", ToString(fan_id), "_">> \o sanitize_filename(upload_name)

\* The names handed in: every string of up to MaxNameLen characters.
Names == UNION {[1..n -> Chars] : n \in 0..MaxNameLen}
Titles == {<<".", ".">>, <<"a", "/", " ", "a">>}

InitNames ==
    /\ fans = << >> /\ tours = << >> /\ selections = << >> /\ consents = << >>
    /\ files = {}
    /\ nextId = [fan |-> 1, tour |-> 1, selection |-> 1, consent |-> 1]
    /\ sessions = << >>
    /\ \E name \in Names : resp = [op |-> "name", filename |-> name]

Returned(op, result) ==
    /\ resp' = [op |-> op, filename |-> resp.filename, result |-> result]
    /\ UNCHANGED <<fans, tours, selections, consents, files, nextId, sessions>>

SanitizeFilename ==
    /\ resp.op = "name"
    /\ Returned("sanitize_filename", sanitize_filename(resp.filename))

GeneratePdfFilename(title, now, random_suffix) ==
    /\ resp.op = "name"
    /\ Returned("generate_pdf_filename",
              generate_pdf_filename(resp.filename, title,
                                    generate_ticket_id(1, 1, now, random_suffix)))

UploadFilename ==
    /\ resp.op = "name"
    /\ Returned("upload_photo_id", PhotoIdFilename(1, resp.filename))

NextNames ==
    \/ SanitizeFilename
    \/ \E title \in Titles, now \in Times, sfx \in Suffixes :
          GeneratePdfFilename(title, now, sfx)
    \/ UploadFilename

SpecNames == InitNames /\ [][NextNames]_vars

\* A name that stays inside the directory it is joined to: one path component,
\* neither the directory itself nor its parent.
OneComponent(name) ==
    /\ \A i \in DOMAIN name : name[i] \notin {"/", "\\"}
    /\ name \notin {<<".">>, <<".", ".">>}

\* C21: for every input string sanitize_filename returns only word characters,
\* hyphens and dots, with no path separator and no whitespace, neither
\* beginning nor ending with '.' or '_' (so never '.' or '..'); the ticket and
\* upload filenames built from it are one path component.
C21_SafeFilename ==
    /\ resp.op = "sanitize_filename" =>
          LET r == resp.result
          IN  /\ \A i \in DOMAIN r : r[i] \in {"a", "_", "-", "."}
              /\ \A i \in DOMAIN r : r[i] \notin {"/", "\\", " "}
              /\ r # << >> => r[1] \notin {".", "_"} /\ r[Len(r)] \notin {".", "_"}
              /\ OneComponent(r)
    /\ resp.op \in {"generate_pdf_filename", "upload_photo_id"} =>
          OneComponent(resp.result)

\* C21 witness: "../a" was sanitized to "a".
C21_Witness ==
    /\ resp.op = "sanitize_filename"
    /\ resp.filename = <<".", ".", "/", "a">>
    /\ resp.result = <<"a">>

----------------------------------------------------------------------------
(* Failed renders, consent and the ticket files *)

\* C22: when the PDF render fails, generate_ticket raises and writes nothing:
\* every selection and every tour is as before the call, and the request that
\* made the call is answered 500.
C22_RenderFailureWritesNothing ==
    [][/\ \A s \in Ids(selections), now \in Times, sfx \in Suffixes :
             LET r == generate_ticket(Db, s, now, sfx, FALSE)
             IN  ~r.ok /\ r.db.selections = selections /\ r.db.tours = tours
       /\ (/\ resp'.op \in {"generate_single_ticket", "regenerate_ticket"}
           /\ resp'.code = 500) =>
              selections' = selections /\ tours' = tours]_vars

\* C22 witness: a re-issue whose render failed was answered 500 for a selection
\* that holds a ticket of a tour with one ticket claimed.
C22_Witness ==
    /\ resp.op = "regenerate_ticket" /\ resp.code = 500
    /\ resp.selection \in Ids(selections)
    /\ selections[resp.selection].ticket_id # None
    /\ selections[resp.selection].status = "confirmed"
    /\ tours[selections[resp.selection].tour_id].tickets_claimed = 1

\* C27: whenever a step writes the ticket of a selection, the fan of the
\* selection has a consent row with agreed = true.
C27_TicketNeedsConsent ==
    [][\A s \in Ids(selections) \cap Ids(selections') :
          (selections'[s].ticket_id # None /\ selections'[s] # selections[s]) =>
              \E c \in Ids(consents) :
                  consents[c].fan_id = selections[s].fan_id /\ consents[c].agreed]_vars

(* Downloads: issuance, re-issuance with renders that succeed or fail, and
   downloads by ticket id. *)
NextDownload ==
    \/ \E email \in FreshEmail, code \in FirstFree : RegisterFan(email, code) /\ CapVerify
    \/ CreateTour(1, TRUE) /\ CapVerify
    \/ \E f \in FanIds, t \in TourIds : AddTourSelection(f, t) /\ CapVerify
    \/ \E s \in SelectionIds, now \in Times, sfx \in Suffixes, pdf_ok \in BOOLEAN :
          RegenerateTicket(s, now, sfx, pdf_ok) /\ CapVerify
    \/ \E ticket_id \in VerifiableIds : VerifyTicket(ticket_id) /\ CapVerify
    \/ \E ticket_id \in VerifiableIds : DownloadTicket(ticket_id) /\ CapVerify

SpecDownload == Init /\ [][NextDownload]_vars

\* C28: every selection that has a ticket points to a PDF file present in the
\* ticket directory, and a download by a ticket id some selection holds is
\* answered with the file.
C28_TicketFileExists ==
    /\ \A s \in Ids(selections) :
          (selections[s].ticket_id # None /\ selections[s].ticket_pdf_path # None) =>
              selections[s].ticket_pdf_path \in files
    /\ (/\ resp.op = "download_ticket"
        /\ \E s \in Ids(selections) : selections[s].ticket_id = resp.ticket_id) =>
           resp.code = 200

----------------------------------------------------------------------------
(* Issuance of all the tickets of a fan *)

\* The fan submitted the consent form with the three agreements given.
Submitted(f) ==
    \E c \in Ids(consents) :
        /\ consents[c].fan_id = f
        /\ consents[c].agreed_to_terms
        /\ consents[c].agreed_to_privacy
        /\ consents[c].age_verified

\* The answer lists selection s with the given already_generated flag.
Listed(answer, s, already) ==
    \E i \in DOMAIN answer.tickets :
        /\ answer.tickets[i].selection = s
        /\ answer.tickets[i].already_generated = already

\* C23: generate_tickets_for_fan, for a fan who submitted the consent form and
\* has selections, visits every pending or confirmed selection of the fan: one
\* that has a ticket is reported as already_generated and left unchanged; every
\* other one is issued, or left unmodified when issuing it failed; each tour's
\* tickets_claimed rises by the number of its selections newly issued.
C23_BulkIssuesEach ==
    [][\A f \in Ids(fans) :
          (/\ resp'.op = "generate_tickets_for_fan"
           /\ resp'.fan = f
           /\ Submitted(f)
           /\ \E s \in Ids(selections) : selections[s].fan_id = f) =>
              LET mine == {s \in Ids(selections) :
                              /\ selections[s].fan_id = f
                              /\ selections[s].status \in {"pending", "confirmed"}}
                  had == {s \in mine : /\ selections[s].ticket_id # None
                                       /\ selections[s].ticket_pdf_path # None}
                  new == {s \in mine \ had : selections'[s] # selections[s]}
              IN  /\ resp'.code = 200
                  /\ \A s \in had :
                        selections'[s] = selections[s] /\ Listed(resp', s, TRUE)
                  /\ \A s \in new :
                        /\ selections'[s].ticket_id # None
                        /\ selections'[s].ticket_pdf_path \in files'
                        /\ selections'[s].status = "confirmed"
                        /\ Listed(resp', s, FALSE)
                  /\ \A t \in Ids(tours) :
                        tours'[t].tickets_claimed = tours[t].tickets_claimed
                            + Cardinality({s \in new : selections[s].tour_id = t})]_vars

----------------------------------------------------------------------------
(* Requests side by side.  Each request runs in a worker thread with a session
   of its own (database.py get_db); nothing in the code locks a row or a
   table.  A request followed line by line is an entry of sessions: pc is the
   place it has reached, the other fields are what its session has read and
   computed, code is its answer once pc = "done". *)

\* A request that was answered without reading further.
Answered(op, f, s, code, already) ==
    [op |-> op, fan |-> f, selection |-> s, pc |-> "done", code |-> code,
     already_generated |-> already, ticket_id |-> None, pdf_path |-> None,
     now |-> None, tour |-> 0, claimed |-> 0]

\* generate_ticket 51-62 in a session that has loaded selection s and, through
\* selection.tour, the row of its tour: the ticket id and the path are
\* computed; the render comes next.
Loaded(op, f, s, now, random_suffix) ==
    LET sel == selections[s]
        ticket_id == generate_ticket_id(sel.fan_id, sel.tour_id, now, random_suffix)
    IN  [op |-> op, fan |-> f, selection |-> s, pc |-> "render", code |-> 0,
         already_generated |-> FALSE, ticket_id |-> ticket_id,
         pdf_path |-> PdfPath(sel.fan_id, sel.tour_id, ticket_id),
         now |-> At(now), tour |-> sel.tour_id,
         claimed |-> tours[sel.tour_id].tickets_claimed]

\* generate_single_ticket 98-137: the checks, then the loads.
OpenSingle(f, s, now, random_suffix) ==
    LET op == "generate_single_ticket"
    IN  /\ sessions' = Append(sessions,
              IF f \notin Ids(fans) THEN Answered(op, f, s, 404, FALSE)
              ELSE IF ~has_completed_consent(consents, f)
              THEN Answered(op, f, s, 400, FALSE)
              ELSE IF s \notin Ids(selections) \/ selections[s].fan_id # f
              THEN Answered(op, f, s, 404, FALSE)
              ELSE IF has_ticket(selections[s]) THEN Answered(op, f, s, 200, TRUE)
              ELSE Loaded(op, f, s, now, random_suffix))
        /\ UNCHANGED <<fans, tours, selections, consents, files, nextId, resp>>

\* regenerate_ticket (service) 226-238, then generate_ticket 51-62: the loads,
\* the removal of the old PDF.
OpenRegenerate(s, now, random_suffix) ==
    LET op == "regenerate_ticket"
    IN  IF s \notin Ids(selections)
        THEN /\ sessions' = Append(sessions, Answered(op, 0, s, 404, FALSE))
             /\ UNCHANGED <<fans, tours, selections, consents, files, nextId, resp>>
        ELSE /\ sessions' = Append(sessions,
                                   Loaded(op, selections[s].fan_id, s, now, random_suffix))
             /\ files' = RemoveOldPdf(Db, s).files
             /\ UNCHANGED <<fans, tours, selections, consents, nextId, resp>>

\* generate_ticket 64-72: create_ticket_pdf writes the file, or fails and the
\* exception becomes the answer 500.
Render(i, pdf_ok) ==
    /\ i \in DOMAIN sessions
    /\ sessions[i].pc = "render"
    /\ IF pdf_ok
       THEN /\ files' = files \cup {sessions[i].pdf_path}
            /\ sessions' = [sessions EXCEPT ![i].pc = "commit"]
       ELSE /\ sessions' = [sessions EXCEPT ![i].pc = "done", ![i].code = 500]
            /\ UNCHANGED files
    /\ UNCHANGED <<fans, tours, selections, consents, nextId, resp>>

\* generate_ticket 82: tour.tickets_claimed += 1 on the object the session
\* loaded; the UPDATE of the commit stores that value.
ClaimFrom(tour, claimed) == [tour EXCEPT !.tickets_claimed = claimed + 1]

\* generate_ticket 74-84: the assignments and the commit, which stores the
\* changed columns of the selection and of the tour.
CommitTicket(i) ==
    /\ i \in DOMAIN sessions
    /\ sessions[i].pc = "commit"
    /\ LET me == sessions[i]
       IN  /\ selections' = [selections EXCEPT ![me.selection] =
                   WriteTicket(@, me.ticket_id, generate_ticket_qr_code(me.ticket_id),
                               me.pdf_path, me.now[1])]
           /\ tours' = [tours EXCEPT ![me.tour] = ClaimFrom(@, me.claimed)]
    /\ sessions' = [sessions EXCEPT ![i].pc = "done", ![i].code = 200]
    /\ UNCHANGED <<fans, consents, files, nextId, resp>>

\* The bounds of the requests side by side.
InFlight ==
    /\ Len(sessions') <= MaxInFlight
    /\ \A t \in Ids(tours') : tours'[t].tickets_claimed <= MaxClaimed

CapRace == Within(MaxFans, MaxAdminTours, MaxSelections, MaxConsents)

\* Issuance side by side: fans, a tour, selections and consent forms, each in
\* one step; single issuance and re-issuance line by line.
NextIssueRace ==
    \/ \E email \in FreshEmail, code \in FirstFree : RegisterFan(email, code) /\ CapRace
    \/ CreateTour(2, TRUE) /\ CapRace
    \/ \E f \in Ids(fans), t \in Ids(tours) : AddTourSelection(f, t) /\ CapRace
    \/ \E f \in Ids(fans), now \in Times :
          SubmitConsent(f, TRUE, TRUE, FALSE, TRUE, now) /\ CapRace
    \/ \E f \in Ids(fans), s \in Ids(selections), now \in Times, sfx \in Suffixes :
          OpenSingle(f, s, now, sfx) /\ InFlight
    \/ \E s \in Ids(selections), now \in Times, sfx \in Suffixes :
          OpenRegenerate(s, now, sfx) /\ InFlight
    \/ \E i \in DOMAIN sessions, pdf_ok \in BOOLEAN : Render(i, pdf_ok) /\ InFlight
    \/ \E i \in DOMAIN sessions : CommitTicket(i) /\ InFlight

SpecIssueRace == Init /\ [][NextIssueRace]_vars

\* Session i is an issuance answered with success.
IssuedBy(i) ==
    /\ sessions[i].pc = "done" /\ sessions[i].code = 200
    /\ ~sessions[i].already_generated

\* C24: once two issuance requests for two different selections of one tour,
\* run side by side, have both succeeded, the tour's tickets_claimed is 2
\* higher than before (the two are the only requests that wrote the counter,
\* which started at 0).
C24_NoLostUpdate ==
    \A i, j \in DOMAIN sessions :
        (/\ Len(sessions) = 2 /\ i # j
         /\ IssuedBy(i) /\ IssuedBy(j)
         /\ sessions[i].selection # sessions[j].selection
         /\ sessions[i].tour = sessions[j].tour) =>
            tours[sessions[i].tour].tickets_claimed = 2

\* The PDF files of the tickets of selection s: the paths carrying its fan and tour.
FilesOf(s) ==
    {path \in files : path[3] = selections[s].fan_id /\ path[4] = selections[s].tour_id}

\* C29: once two generate_single_ticket requests for one selection of a fan who
\* submitted the consent form, run side by side with no other issuance, have
\* both been answered, the selection has exactly one ticket, its recorded PDF
\* is the only PDF file made for it, and tickets_claimed of its tour has risen
\* by at most 1 (from 0).
C29_OneTicketFromTwoRequests ==
    \A i, j \in DOMAIN sessions :
        (/\ Len(sessions) = 2 /\ i # j
         /\ sessions[i].op = "generate_single_ticket"
         /\ sessions[j].op = "generate_single_ticket"
         /\ sessions[i].pc = "done" /\ sessions[j].pc = "done"
         /\ sessions[i].selection = sessions[j].selection
         /\ sessions[i].fan = sessions[j].fan
         /\ sessions[i].selection \in Ids(selections)
         /\ selections[sessions[i].selection].fan_id = sessions[i].fan
         /\ Submitted(sessions[i].fan)) =>
            LET s == sessions[i].selection
            IN  /\ selections[s].ticket_id # None
                /\ FilesOf(s) = {selections[s].ticket_pdf_path}
                /\ tours[selections[s].tour_id].tickets_claimed <= 1

----------------------------------------------------------------------------
(* Selection adds side by side (routes/fans.py) *)

\* add_tour_selection 215-255: the answer of the checks, 0 when all pass.
AddChecks(f, t) ==
    IF f \notin Ids(fans) THEN 404
    ELSE IF ~can_select_more_tours(selections, f) THEN 400
    ELSE IF t \notin Ids(tours) THEN 404
    ELSE IF ~is_available(tours[t]) THEN 400
    ELSE IF \E s \in Ids(selections) :
               selections[s].fan_id = f /\ selections[s].tour_id = t
    THEN 400
    ELSE 0

\* add_bulk_tour_selections 293-337: the answer of the checks, 0 when all pass.
BulkChecks(f, tour_ids) ==
    LET found == Range(tour_ids) \cap Ids(tours)
        existing_tour_ids == {selections[s].tour_id : s \in SelectionsOf(selections, f)}
    IN  IF Len(tour_ids) < 1 \/ Len(tour_ids) > MaxBulkItems THEN 422
        ELSE IF f \notin Ids(fans) THEN 404
        ELSE IF selections_count(selections, f) + Len(tour_ids) > MAX_TOURS_PER_FAN
        THEN 400
        ELSE IF Cardinality(found) # Len(tour_ids) THEN 404
        ELSE IF \E t \in found : ~is_available(tours[t]) THEN 400
        ELSE IF Range(tour_ids) \cap existing_tour_ids # {} THEN 400
        ELSE 0

\* A request for selections: answered by its checks, or about to insert.
Adding(op, f, tour_ids, code) ==
    [op |-> op, fan |-> f, tour_ids |-> tour_ids,
     pc |-> IF code = 0 THEN "insert" ELSE "done", code |-> code]

OpenAdd(f, t) ==
    /\ sessions' = Append(sessions,
                          Adding("add_tour_selection", f, <<t>>, AddChecks(f, t)))
    /\ UNCHANGED <<fans, tours, selections, consents, files, nextId, resp>>

OpenBulk(f, tour_ids) ==
    /\ sessions' = Append(sessions,
                          Adding("add_bulk_tour_selections", f, tour_ids,
                                 BulkChecks(f, tour_ids)))
    /\ UNCHANGED <<fans, tours, selections, consents, files, nextId, resp>>

\* add_tour_selection 257-265: db.add(new_selection), db.commit()
InsertSelection(i) ==
    /\ i \in DOMAIN sessions
    /\ sessions[i].op = "add_tour_selection" /\ sessions[i].pc = "insert"
    /\ selections' = Insert(selections, nextId.selection,
                            NewSelection(sessions[i].fan, sessions[i].tour_ids[1]))
    /\ nextId' = [nextId EXCEPT !.selection = @ + 1]
    /\ sessions' = [sessions EXCEPT ![i].pc = "done", ![i].code = 201]
    /\ UNCHANGED <<fans, tours, consents, files, resp>>

\* add_bulk_tour_selections 339-348: the loop of db.add, db.commit()
InsertBulk(i) ==
    /\ i \in DOMAIN sessions
    /\ sessions[i].op = "add_bulk_tour_selections" /\ sessions[i].pc = "insert"
    /\ selections' = selections @@ BulkRows(sessions[i].fan, sessions[i].tour_ids,
                                            nextId.selection)
    /\ nextId' = [nextId EXCEPT !.selection = @ + Len(sessions[i].tour_ids)]
    /\ sessions' = [sessions EXCEPT ![i].pc = "done", ![i].code = 201]
    /\ UNCHANGED <<fans, tours, consents, files, resp>>

CapAdds ==
    /\ nextId'.selection <= MaxLimitSelections + 1
    /\ Len(sessions') <= MaxInFlight

\* The first available tour the fan has not selected.
FirstFresh(f) ==
    FirstOf({t \in Ids(tours) :
                /\ is_available(tours[t])
                /\ \A s \in SelectionsOf(selections, f) : selections[s].tour_id # t})

\* Adds side by side, for the fan and the tours of InitLimit: adds in one step
\* on the way to the ceiling, single and bulk adds line by line.
NextAddRace ==
    \/ \E f \in Ids(fans) : \E t \in FirstFresh(f) : AddTourSelection(f, t) /\ CapLimit
    \/ \E f \in Ids(fans) : \E t \in NamedTours(f) : OpenAdd(f, t) /\ CapAdds
    \/ \E f \in Ids(fans) : \E tour_ids \in BulkRequests(f) :
          OpenBulk(f, tour_ids) /\ CapAdds
    \/ \E i \in DOMAIN sessions : InsertSelection(i) /\ CapAdds
    \/ \E i \in DOMAIN sessions : InsertBulk(i) /\ CapAdds

SpecAddRace == InitLimit /\ [][NextAddRace]_vars

\* C30: under every interleaving of single and bulk adds of one fan, the fan
\* never has more than MAX_TOURS_PER_FAN selections.
C30_CeilingUnderRaces ==
    \A f \in Ids(fans) :
        Cardinality({s \in Ids(selections) : selections[s].fan_id = f})
            <= MAX_TOURS_PER_FAN

----------------------------------------------------------------------------
(* routes/fans.py: register_fan line by line, with its redraw loop *)

\* (mutation) the query of the loop finds no fan
CodeTaken_Never(code) == FALSE

\* db.query(Fan).filter(Fan.registration_code == registration_code).first()
CodeTaken(code) == \E f \in Ids(fans) : fans[f].registration_code = code

\* register_fan 43-48: the email check; the first draw comes next.
OpenRegister(email) ==
    /\ sessions' = Append(sessions,
          [op |-> "register_fan", email |-> email, registration_code |-> None,
           redrawn |-> FALSE,
           pc |-> IF \E f \in Ids(fans) : fans[f].email = email
                  THEN "done" ELSE "draw",
           code |-> IF \E f \in Ids(fans) : fans[f].email = email THEN 400 ELSE 0])
    /\ UNCHANGED <<fans, tours, selections, consents, files, nextId, resp>>

\* register_fan 51 and 53: generate_registration_code() returns any code of the
\* code space.
DrawCode(i, code) ==
    /\ i \in DOMAIN sessions
    /\ sessions[i].op = "register_fan" /\ sessions[i].pc = "draw"
    /\ sessions' = [sessions EXCEPT ![i].registration_code = <<code>>,
                                    ![i].pc = "check"]
    /\ UNCHANGED <<fans, tours, selections, consents, files, nextId, resp>>

\* register_fan 52: the condition of the while loop.
CheckCode(i) ==
    /\ i \in DOMAIN sessions
    /\ sessions[i].op = "register_fan" /\ sessions[i].pc = "check"
    /\ sessions' = IF CodeTaken(sessions[i].registration_code[1])
                   THEN [sessions EXCEPT ![i].pc = "draw", ![i].redrawn = TRUE]
                   ELSE [sessions EXCEPT ![i].pc = "insert"]
    /\ UNCHANGED <<fans, tours, selections, consents, files, nextId, resp>>

\* register_fan 56-66: db.add(fan), db.commit().  email and registration_code
\* are unique columns (models/fan.py 22, 27): a row that repeats either is
\* refused by the database and the request is answered 500.
InsertFan(i) ==
    /\ i \in DOMAIN sessions
    /\ sessions[i].op = "register_fan" /\ sessions[i].pc = "insert"
    /\ LET me == sessions[i]
           refused == \E f \in Ids(fans) :
                         \/ fans[f].email = me.email
                         \/ fans[f].registration_code = me.registration_code[1]
       IN  IF refused
           THEN /\ sessions' = [sessions EXCEPT ![i].pc = "done", ![i].code = 500]
                /\ UNCHANGED <<fans, nextId>>
           ELSE /\ fans' = Insert(fans, nextId.fan,
                                  [email |-> me.email,
                                   registration_code |-> me.registration_code[1]])
                /\ nextId' = [nextId EXCEPT !.fan = @ + 1]
                /\ sessions' = [sessions EXCEPT ![i].pc = "done", ![i].code = 201]
    /\ UNCHANGED <<tours, selections, consents, files, resp>>

CapRegistering ==
    /\ nextId'.fan <= MaxRegistered + 1
    /\ Len(sessions') <= MaxInFlight

\* Registrations: in one step each, and line by line.
NextCodeLoop ==
    \/ \E email \in FreshEmail, code \in FirstFree :
          RegisterFan(email, code) /\ CapRegister
    \/ \E email \in Emails : OpenRegister(email) /\ CapRegistering
    \/ \E i \in 1..MaxInFlight, code \in CodeSpace : DrawCode(i, code)
    \/ \E i \in 1..MaxInFlight : CheckCode(i)
    \/ \E i \in 1..MaxInFlight : InsertFan(i) /\ CapRegistering

\* A request that is running keeps running, and the draws are fair: a code that
\* can be drawn again and again is drawn in the end.
FairCodeLoop ==
    \A i \in 1..MaxInFlight :
        /\ WF_vars(CheckCode(i))
        /\ \A code \in CodeSpace : SF_vars(DrawCode(i, code))

SpecCodeLoop == Init /\ [][NextCodeLoop]_vars /\ FairCodeLoop

\* Request i is in the loop of lines 51-53.
InLoop(i) ==
    /\ i \in DOMAIN sessions
    /\ sessions[i].pc \in {"draw", "check"}

\* Every code of the code space is the registration code of a fan.
AllCodesUsed ==
    \A code \in CodeSpace : \E f \in Ids(fans) : fans[f].registration_code = code

\* C26: the redraw loop of register_fan leaves with a code no persisted fan
\* has; a request in the loop leaves it in the end unless every code of the
\* code space has been assigned; while every code is assigned, no request
\* leaves the loop.
C26_CodeLoop ==
    /\ [][\A i \in DOMAIN sessions :
             (sessions[i].pc = "check" /\ sessions'[i].pc = "insert") =>
                 \A f \in Ids(fans) :
                     fans[f].registration_code # sessions'[i].registration_code[1]]_vars
    /\ [][\A i \in DOMAIN sessions :
             (InLoop(i) /\ AllCodesUsed) => (sessions'[i].pc \in {"draw", "check"})]_vars
    /\ \A i \in 1..MaxInFlight : InLoop(i) ~> (~InLoop(i) \/ AllCodesUsed)

\* C26 witness: one request left the loop after a redraw and registered its
\* fan; another is in the loop, having redrawn, with every code assigned.
C26_Witness ==
    /\ \E i \in DOMAIN sessions :
          sessions[i].pc = "done" /\ sessions[i].code = 201 /\ sessions[i].redrawn
    /\ \E i \in DOMAIN sessions : InLoop(i) /\ sessions[i].redrawn
    /\ AllCodesUsed

----------------------------------------------------------------------------
(* services/pdf_service.py: create_ticket_pdf *)

\* The fixed head of the data URI that generate_qr_code_base64 returns, comma
\* included; what follows it is the base64 text.
DataUri == "data:image/png;base64"

\* Samples of the base64 text: the text of a QR image is written as the ticket
\* id it encodes; "abc" has incorrect padding, so b64decode raises; "Tm9uZQ=="
\* decodes to bytes that are no image, so ImageReader raises; the empty text
\* decodes to no bytes at all.
BadPadding == <<"abc">>
NoImage == <<"Tm9uZQ==">>

\* The strings handed in as qr_code_base64: none, the data URIs of tickets, the
\* same without the head, and the malformed ones ("data:image" has no comma).
QrCodes ==
    LET ticket_ids == {generate_ticket_id(f, t, now, sfx) :
                          f \in 1..MaxFans, t \in 1..MaxTours,
                          now \in Times, sfx \in Suffixes}
        texts == ticket_ids \cup {BadPadding, NoImage, << >>}
    IN  {<< >>, <<"data:image">>} \cup texts \cup {<<DataUri>> \o text : text \in texts}

\* The drawing call of create_ticket_pdf that raises, if any.
Faults == {"none", "canvas", "background", "header", "info", "footer", "save"}

\* qr_code_base64.startswith('data:image')
StartsWithDataImage(qr) == qr # << >> /\ qr[1] \in {DataUri, "data:image"}

\* (mutation) the exception of the QR section is not caught
draw_qr_code_Raises(c, qr) ==
    IF qr # << >> /\ qr[1] = "data:image" THEN [raised |-> TRUE, canvas |-> c]
    ELSE LET text == IF StartsWithDataImage(qr) THEN Tail(qr) ELSE qr
         IN  IF text = << >> \/ text[1] # "TKT" THEN [raised |-> TRUE, canvas |-> c]
             ELSE [raised |-> FALSE, canvas |-> c \o <<"qr_image", "qr_label">>]

\* _draw_qr_code: split off the head, decode, draw the image and its label;
\* any exception on the way is caught and printed, and the canvas is as it was.
draw_qr_code(c, qr) ==
    LET unchanged == [raised |-> FALSE, canvas |-> c]
    IN  IF qr # << >> /\ qr[1] = "data:image" THEN unchanged    \* split(',')[1]
        ELSE LET text == IF StartsWithDataImage(qr) THEN Tail(qr) ELSE qr
             IN  IF text # << >> /\ text[1] = BadPadding[1] THEN unchanged  \* b64decode
                 ELSE IF text = << >> \/ text[1] # "TKT" THEN unchanged     \* ImageReader
                 ELSE [raised |-> FALSE, canvas |-> c \o <<"qr_image", "qr_label">>]

\* One drawing call inside the try block: skipped once an exception is on its
\* way, raising when it is the call at fault.
Draw(r, section, fault) ==
    IF r.raised THEN r
    ELSE IF fault = section THEN [r EXCEPT !.raised = TRUE]
    ELSE [r EXCEPT !.canvas = Append(@, section)]

\* create_ticket_pdf: the canvas, the sections in order, the QR section when a
\* QR string is given, the footer, save; False on any exception.
create_ticket_pdf(qr, fault) ==
    LET c0 == [raised |-> fault = "canvas", canvas |-> << >>]
        c3 == Draw(Draw(Draw(c0, "background", fault), "header", fault), "info", fault)
        c4 == IF c3.raised \/ qr = << >> THEN c3 ELSE draw_qr_code(c3.canvas, qr)
        c5 == Draw(c4, "footer", fault)
        saved == ~c5.raised /\ fault # "save"
    IN  [success |-> saved, file |-> IF saved THEN c5.canvas ELSE None]

InitPdf ==
    /\ fans = << >> /\ tours = << >> /\ selections = << >> /\ consents = << >>
    /\ files = {}
    /\ nextId = [fan |-> 1, tour |-> 1, selection |-> 1, consent |-> 1]
    /\ sessions = << >>
    /\ \E qr \in QrCodes, fault \in Faults :
          resp = [op |-> "ticket", qr |-> qr, fault |-> fault]

CreateTicketPdf(filepath) ==
    /\ resp.op = "ticket"
    /\ LET r == create_ticket_pdf(resp.qr, resp.fault)
       IN  /\ resp' = [op |-> "create_ticket_pdf", qr |-> resp.qr, fault |-> resp.fault,
                       filepath |-> filepath, success |-> r.success, file |-> r.file]
           /\ files' = IF r.success THEN files \cup {filepath} ELSE files
    /\ UNCHANGED <<fans, tours, selections, consents, nextId, sessions>>

NextPdf ==
    \E sfx \in Suffixes, now \in Times :
        CreateTicketPdf(PdfPath(1, 1, generate_ticket_id(1, 1, now, sfx)))

SpecPdf == InitPdf /\ [][NextPdf]_vars

\* The QR string is given and cannot be decoded or drawn.
QrBroken(qr) ==
    /\ qr # << >>
    /\ \/ qr[1] = "data:image"
       \/ Len(qr) = 1 /\ qr[1] \in {"data:image/png;base64", "abc", "Tm9uZQ=="}
       \/ Len(qr) = 2 /\ qr[2] \in {"abc", "Tm9uZQ=="}

\* C25: when the QR string handed to create_ticket_pdf cannot be decoded or
\* drawn and nothing else fails, the background, the header and the ticket
\* fields are kept, the footer is drawn after them, the file is saved and
\* success is returned; the QR section alone is missing.
C25_QrFailureKeepsRender ==
    (/\ resp.op = "create_ticket_pdf"
     /\ resp.fault = "none"
     /\ QrBroken(resp.qr)) =>
        /\ resp.success
        /\ resp.file = <<"background", "header", "info", "footer">>
        /\ resp.filepath \in files

\* C25 witness: a data URI whose base64 text has incorrect padding was handed
\* in, and the PDF was saved.
C25_Witness ==
    /\ resp.op = "create_ticket_pdf"
    /\ resp.qr = <<"data:image/png;base64", "abc">>
    /\ resp.fault = "none"
    /\ resp.success


====
